---- MODULE Spec2Model ----
(***************************************************************************)
(* Model of the document analyzer agent:                                   *)
(*   - tools/pdf_to_png.py        the pdf_to_png tool handler              *)
(*   - agent.py                   content block assembly and the two-node  *)
(*                                graph image_analyzer -> report_generator *)
(*   - utils/credentials_loader.py  load_credentials                       *)
(*                                                                         *)
(* A path is a sequence of tokens.  The tokens "/", "~" and "." stand for  *)
(* those characters; every other token is a run of characters holding      *)
(* none of the three.  The os.path functions only look at these three      *)
(* characters, so they are modelled token by token.                        *)
(***************************************************************************)
EXTENDS Integers, Sequences, FiniteSets, TLC

VARIABLES
    req,        \* pdf_to_png: the tool-use request under study
    dirs,       \* file system: the directories (canonical absolute paths)
    files,      \* file system: canonical path -> file
    calls,      \* number of pdf_to_png invocations made so far
    result,     \* outcome of the latest pdf_to_png invocation
    prev,       \* outcome and file system before the latest invocation
    file_names, \* agent.py: os.listdir(documents_folder_path)
    context,    \* agent.py: args.context
    idx,        \* agent.py: number of file_names the for loop has consumed
    content_blocks, \* agent.py: the message being assembled
    log,        \* records emitted through logging
    pc,         \* agent.py: position of the script
    status,     \* graph: per node "pending" | "running" | "completed" | "failed"
    started,    \* graph: node ids in the order their execution started
    message,    \* graph: the task the graph was invoked with
    cfile,      \* credentials_loader: the credentials file on disk
    credentials \* credentials_loader: value returned by load_credentials

vars == <<req, dirs, files, calls, result, prev, file_names, context,
          idx, content_blocks, log, pc, status, started, message, cfile,
          credentials>>

pdfVars == <<req, dirs, files, calls, result, prev>>
agentVars == <<file_names, context, idx, content_blocks, pc, status, started,
               message>>
credVars == <<cfile, credentials>>

-----------------------------------------------------------------------------
(* Bounds of the model *)

MaxPages == 2
MaxCalls == 2
MaxFiles == 2
MaxExec == 2

-----------------------------------------------------------------------------
(* Sequence helpers *)

Last(s) == s[Len(s)]

\* Largest index holding c, 0 when there is none (str.rfind(c) + 1).
RECURSIVE RFind(_, _)
RFind(p, c) ==
    IF p = <<>> THEN 0
    ELSE IF Last(p) = c THEN Len(p)
    ELSE RFind(SubSeq(p, 1, Len(p) - 1), c)

\* Smallest index holding c, Len(p) + 1 when there is none.
RECURSIVE Find(_, _)
Find(p, c) ==
    IF p = <<>> THEN 1
    ELSE IF Head(p) = c THEN 1
    ELSE 1 + Find(Tail(p), c)

\* str.rstrip(c)
RECURSIVE RStrip(_, _)
RStrip(p, c) ==
    IF p # <<>> /\ Last(p) = c THEN RStrip(SubSeq(p, 1, Len(p) - 1), c) ELSE p

AllAre(p, c) == \A i \in 1..Len(p) : p[i] = c

Range(s) == {s[i] : i \in 1..Len(s)}

-----------------------------------------------------------------------------
(* os.path *)

HOME == <<"/", "home", "/", "u">>      \* home directory of the invoking user
CWD == <<"/", "w">>                    \* os.getcwd()
Users == {<<"u">>}                     \* accounts pwd.getpwnam knows

\* os.path.expanduser
expanduser(p) ==
    IF p = <<>> \/ Head(p) # "~" THEN p
    ELSE LET i == Find(p, "/")
             rest == SubSeq(p, i, Len(p))
             known == i = 2 \/ SubSeq(p, 2, i - 1) \in Users
             userhome == RStrip(HOME, "/")
         IN  IF ~known THEN p
             ELSE IF userhome \o rest = <<>> THEN <<"/">>
             ELSE userhome \o rest

\* os.path.dirname
dirname(p) ==
    LET i == RFind(p, "/")
        head == SubSeq(p, 1, i)
    IN  IF head # <<>> /\ ~AllAre(head, "/") THEN RStrip(head, "/") ELSE head

\* os.path.basename
basename(p) == SubSeq(p, RFind(p, "/") + 1, Len(p))

\* os.path.splitext(p)[0]
splitext0(p) ==
    LET sepIndex == RFind(p, "/")
        dotIndex == RFind(p, ".")
    IN  IF dotIndex > sepIndex
           /\ \E j \in (sepIndex + 1)..(dotIndex - 1) : p[j] # "."
        THEN SubSeq(p, 1, dotIndex - 1)
        ELSE p

\* os.path.join(a, b)
join(a, b) ==
    IF b # <<>> /\ Head(b) = "/" THEN b
    ELSE IF a = <<>> \/ Last(a) = "/" THEN a \o b
    ELSE a \o <<"/">> \o b

\* The file the kernel resolves a path to: relative paths start at the working
\* directory, repeated and trailing separators are dropped.
RECURSIVE Squeeze(_)
Squeeze(p) ==
    IF Len(p) < 2 THEN p
    ELSE IF p[1] = "/" /\ p[2] = "/" THEN Squeeze(Tail(p))
    ELSE <<Head(p)>> \o Squeeze(Tail(p))

Canon(p) ==
    LET a == IF p # <<>> /\ Head(p) = "/" THEN p ELSE CWD \o <<"/">> \o p
        s == Squeeze(a)
    IN  IF Len(s) > 1 THEN RStrip(s, "/") ELSE s

\* (mutant) the existence check always passes
exists_always(p) == TRUE

\* os.path.exists: os.stat succeeds.  The empty path names nothing, and a
\* path with a trailing separator names a directory only.
exists(p) ==
    /\ p # <<>>
    /\ \/ Canon(p) \in dirs
       \/ Canon(p) \in DOMAIN files /\ Last(p) # "/"

\* The canonical paths of a directory and of all its ancestors.
Ancestors(c) == {SubSeq(c, 1, i) : i \in {j \in 2..Len(c) : j = Len(c) \/ c[j + 1] = "/"}}
                   \cup {<<"/">>}

-----------------------------------------------------------------------------
(* tools/pdf_to_png.py *)

\* A file: pages > 0 for a PDF document of that many pages; by is the number of
\* the pdf_to_png invocation that wrote it (0: it was there from the start);
\* page is the document page an image shows; complete is FALSE for what a
\* failed save left behind.
SourceFile(n) == [pages |-> n, by |-> 0, page |-> 0, complete |-> TRUE]
ImageFile(n, pg, whole) == [pages |-> 0, by |-> n, page |-> pg, complete |-> whole]

\* (mutant) an existing file is left as it is
Put_keep(f, p, v) == [q \in DOMAIN f \cup {p} |-> IF q \in DOMAIN f THEN f[q] ELSE v]

\* open(p, "wb") and write: the file is created or replaced
Put(f, p, v) == [q \in DOMAIN f \cup {p} |-> IF q = p THEN v ELSE f[q]]

\* The values a tool input field may carry.
Absent == [k |-> "absent", n |-> 0]
IntVal(n) == [k |-> "int", n |-> n]         \* 2
NumStr(n) == [k |-> "numstr", n |-> n]      \* "2"
BadVal == [k |-> "bad", n |-> 0]            \* "abc", None
NoPath == [k |-> "absent", p |-> <<>>]
StrPath(p) == [k |-> "str", p |-> p]
BadPath == [k |-> "bad", p |-> <<>>]        \* None, 5

\* What the environment does to one invocation: os.makedirs is refused,
\* convert_from_path raises, the save-th image.save raises (0: none does),
\* leaving a truncated file behind or not.
NoFault == [mkdir |-> FALSE, convert |-> FALSE, save |-> 0, partial |-> FALSE]

\* Outcomes.  status "raised": an exception left pdf_to_png.  fault is the
\* environment fault that struck this invocation, "none" when none did, and at
\* the number of the image.save that failed.
Success(paths) ==
    [status |-> "success", text |-> "converted", paths |-> paths, fault |-> "none",
     at |-> 0]
Error(text, fault, at) ==
    [status |-> "error", text |-> text, paths |-> <<>>, fault |-> fault, at |-> at]
Raised == [status |-> "raised", text |-> "UnboundLocalError", paths |-> <<>>,
           fault |-> "none", at |-> 0]
NoResult == [status |-> "none", text |-> "", paths |-> <<>>, fault |-> "none",
             at |-> 0]

Outcome(r, d, f) == [result |-> r, dirs |-> d, files |-> f]

\* The except clause, lines 210-215: it reads tool_use_id, which is unbound
\* when line 152 itself raised.
HandlerReturns(bound, fault) ==
    IF bound THEN Error("exception", fault, 0) ELSE Raised

\* int(x), lines 181-183
CanInt(v) == v.k \in {"int", "numstr"}

\* (mutant) os.mkdir: the parent directory is not created
makedirs_single(p, refused, d, f) ==
    IF p = <<>> \/ refused \/ Ancestors(Canon(p)) \cap DOMAIN f # {}
       \/ Ancestors(Canon(p)) \ {Canon(p)} \notin SUBSET d
    THEN [ok |-> FALSE, dirs |-> d]
    ELSE [ok |-> TRUE, dirs |-> d \cup {Canon(p)}]

\* os.makedirs(p): [ok, dirs]
makedirs(p, refused, d, f) ==
    IF p = <<>> \/ refused \/ Ancestors(Canon(p)) \cap DOMAIN f # {}
    THEN [ok |-> FALSE, dirs |-> d]
    ELSE [ok |-> TRUE, dirs |-> d \cup Ancestors(Canon(p))]

\* pdf2image.convert_from_path(pdf_path, first_page, last_page): the numbers of
\* the pages rendered, in order.  last = 0 stands for None when has_last is FALSE.
RECURSIVE Interval(_, _)
Interval(lo, hi) == IF lo > hi THEN <<>> ELSE <<lo>> \o Interval(lo + 1, hi)

convert_from_path(page_count, first, has_last, last) ==
    LET lo == IF first < 1 THEN 1 ELSE first
        hi == IF ~has_last \/ last > page_count THEN page_count ELSE last
    IN  Interval(lo, hi)

\* (mutant) the page number is the 0-based one
PageName_zero_based(base_filename, page_num) ==
    base_filename \o <<"_page_", ToString(page_num - 1), ".", "png">>

\* f"{base_filename}_page_{page_num}.png", line 201
PageName(base_filename, page_num) ==
    base_filename \o <<"_page_", ToString(page_num), ".", "png">>

\* The loop of lines 199-203 from index i (0-based) on: [ok, paths, files, fault].
RECURSIVE SaveImages(_, _, _, _, _, _, _, _, _)
SaveImages(i, images, first_page, output_dir, base_filename, env, n, d, acc) ==
    IF i >= Len(images) THEN [ok |-> TRUE, paths |-> acc.paths, files |-> acc.files,
                              fault |-> "none"]
    ELSE LET page_num == first_page + i
             image_path == join(output_dir, PageName(base_filename, page_num))
             target == Canon(image_path)
             writable == Canon(dirname(image_path)) \in d /\ target \notin d
         IN  IF ~writable
             THEN [ok |-> FALSE, paths |-> acc.paths, files |-> acc.files,
                   fault |-> "none"]
             ELSE IF env.save = i + 1
             THEN [ok |-> FALSE, paths |-> acc.paths,
                   files |-> IF env.partial
                             THEN Put(acc.files, target, ImageFile(n, images[i + 1], FALSE))
                             ELSE acc.files,
                   fault |-> "save"]
             ELSE SaveImages(i + 1, images, first_page, output_dir, base_filename,
                             env, n, d,
                             [paths |-> Append(acc.paths, image_path),
                              files |-> Put(acc.files, target,
                                            ImageFile(n, images[i + 1], TRUE))])

\* Lines 180-209, once the output directory is there.
Convert(input, pdf_path, output_dir, env, n, d, f) ==
    IF ~(CanInt(input.dpi) \/ input.dpi.k = "absent")
       \/ ~(CanInt(input.first_page) \/ input.first_page.k = "absent")
       \/ ~(CanInt(input.last_page) \/ input.last_page.k = "absent")
    THEN Outcome(Error("exception", "none", 0), d, f)
    ELSE LET first_page == IF input.first_page.k = "absent" THEN 1
                           ELSE input.first_page.n
             has_last == input.last_page.k # "absent"
             base_filename == splitext0(basename(pdf_path))
             src == Canon(pdf_path)
             is_pdf == src \in DOMAIN f /\ f[src].pages > 0 /\ Last(pdf_path) # "/"
         IN  IF ~is_pdf THEN Outcome(Error("exception", "none", 0), d, f)
             ELSE IF env.convert THEN Outcome(Error("exception", "convert", 0), d, f)
             ELSE LET images == convert_from_path(f[src].pages, first_page, has_last,
                                                  input.last_page.n)
                      saved == SaveImages(0, images, first_page, output_dir,
                                          base_filename, env, n, d,
                                          [paths |-> <<>>, files |-> f])
                  IN  IF saved.ok THEN Outcome(Success(saved.paths), d, saved.files)
                      ELSE Outcome(Error("exception", saved.fault,
                                         IF saved.fault = "save" THEN env.save ELSE 0),
                                   d, saved.files)

\* Lines 171-178: the output directory.
OutputDir(input, pdf_path) ==
    LET given == expanduser(IF input.output_dir.k = "absent" THEN <<>>
                            ELSE input.output_dir.p)
    IN  IF given = <<>> THEN dirname(pdf_path) ELSE given

\* pdf_to_png(tool), lines 151-215, as invocation number n under env.
pdf_to_png(tool, env, n) ==
    LET input == tool.input
        pdf_path == expanduser(input.pdf_path.p)
        output_dir == OutputDir(input, pdf_path)
        made == makedirs(output_dir, env.mkdir, dirs, files)
    IN  IF tool.envelope \in {"noId", "notDict"}
        THEN Outcome(HandlerReturns(FALSE, "none"), dirs, files)
        ELSE IF tool.envelope \in {"noInput", "badInput"}
        THEN Outcome(HandlerReturns(TRUE, "none"), dirs, files)
        ELSE IF input.pdf_path.k = "absent"
        THEN Outcome(Error("required", "none", 0), dirs, files)
        ELSE IF input.pdf_path.k = "bad"
        THEN Outcome(HandlerReturns(TRUE, "none"), dirs, files)
        ELSE IF ~exists(pdf_path)
        THEN Outcome(Error("notfound", "none", 0), dirs, files)
        ELSE IF input.output_dir.k = "bad"
        THEN Outcome(HandlerReturns(TRUE, "none"), dirs, files)
        ELSE IF exists(output_dir)
        THEN Convert(input, pdf_path, output_dir, env, n, dirs, files)
        ELSE IF ~made.ok
        THEN Outcome(HandlerReturns(TRUE, IF env.mkdir /\ output_dir # <<>>
                                          THEN "mkdir" ELSE "none"), dirs, files)
        ELSE Convert(input, pdf_path, output_dir, env, n, made.dirs, files)


-----------------------------------------------------------------------------
(* The pdf_to_png specification: one request, invoked repeatedly *)

DocPdf == <<"/", "d", "/", "doc", ".", "pdf">>
HomePdf == <<"~", "/", "r", ".", "pdf">>
BarePdf == <<"doc", ".", "pdf">>
MissingPdf == <<"/", "d", "/", "no", ".", "pdf">>
OtherUserPdf == <<"~", "x", "/", "r", ".", "pdf">>
DocDir == <<"/", "d">>

InitDirs == {<<"/">>, <<"/", "home">>, HOME, CWD, DocDir}
InitFiles ==
    [p \in {DocPdf, HOME \o <<"/", "r", ".", "pdf">>, CWD \o <<"/">> \o BarePdf}
        |-> IF p = DocPdf THEN SourceFile(MaxPages)
            ELSE IF p = CWD \o <<"/">> \o BarePdf THEN SourceFile(MaxPages)
            ELSE SourceFile(1)]

PdfPathValues ==
    {NoPath, BadPath} \cup
    {StrPath(p) : p \in {DocPdf, HomePdf, BarePdf, MissingPdf, OtherUserPdf, DocDir}}
OutputDirValues ==
    {NoPath, BadPath} \cup
    {StrPath(p) : p \in {<<>>, <<"/", "out">>, <<"~", "/", "o", "/", "p">>,
                         <<"/", "d", "/">>}}
DpiValues == {Absent, NumStr(150), BadVal}
FirstPageValues == {Absent, BadVal} \cup {IntVal(n) : n \in 0..MaxPages}
LastPageValues == {Absent, BadVal} \cup {IntVal(n) : n \in 1..MaxPages}

Inputs ==
    [pdf_path : PdfPathValues, output_dir : OutputDirValues, dpi : DpiValues,
     first_page : FirstPageValues, last_page : LastPageValues]
PlainInput ==
    [pdf_path |-> StrPath(DocPdf), output_dir |-> NoPath, dpi |-> Absent,
     first_page |-> Absent, last_page |-> Absent]
Requests ==
    [envelope : {"ok"}, input : Inputs] \cup
    [envelope : {"noId", "noInput", "badInput", "notDict"}, input : {PlainInput}]

\* An invocation ends at the first fault that strikes it, so environments with
\* one fault cover those with several.
Envs ==
    {e \in [mkdir : BOOLEAN, convert : BOOLEAN, save : 0..MaxPages, partial : BOOLEAN] :
        /\ e.save = 0 => ~e.partial
        /\ Cardinality({x \in {"mkdir", "convert", "save"} :
                          \/ x = "mkdir" /\ e.mkdir
                          \/ x = "convert" /\ e.convert
                          \/ x = "save" /\ e.save > 0}) <= 1}

AgentIdle ==
    /\ file_names = <<>> /\ context = FALSE /\ idx = 0 /\ content_blocks = <<>>
    /\ pc = "idle" /\ status = <<>> /\ started = <<>> /\ message = <<>>
CredIdle == cfile = "none" /\ credentials = <<>>
PdfIdle ==
    /\ req = "none" /\ dirs = {} /\ files = <<>> /\ calls = 0
    /\ result = NoResult /\ prev = "none"

PdfInit ==
    /\ req \in Requests
    /\ dirs = InitDirs
    /\ files = InitFiles
    /\ calls = 0
    /\ result = NoResult
    /\ prev = Outcome(NoResult, InitDirs, InitFiles)
    /\ AgentIdle
    /\ CredIdle
    /\ log = <<>>

\* One invocation of pdf_to_png on the request.
Call(env) ==
    /\ calls < MaxCalls
    /\ \E out \in {pdf_to_png(req, env, calls + 1)} :
           /\ result' = out.result
           /\ dirs' = out.dirs
           /\ files' = out.files
    /\ prev' = Outcome(result, dirs, files)
    /\ calls' = calls + 1
    /\ UNCHANGED <<req, agentVars, credVars, log>>

PdfNext == \E env \in Envs : Call(env)

PdfSpec == PdfInit /\ [][PdfNext]_vars

-----------------------------------------------------------------------------
(* What the pdf_to_png claims speak about *)

Called == calls > 0
WellFormed == req.envelope = "ok"
In == req.input

\* The file the request's source path names, and whether it was there (as a
\* PDF document) when the latest invocation started.
Source == Canon(expanduser(In.pdf_path.p))
SourceGiven == WellFormed /\ In.pdf_path.k = "str"
SourceMissing == SourceGiven /\ Source \notin (prev.dirs \cup DOMAIN prev.files)
SourceIsPdf ==
    SourceGiven /\ Source \in DOMAIN prev.files /\ prev.files[Source].pages > 0

\* The directory that holds a file, and a file name less its extension, read off
\* the canonical path c = /dir/.../name.ext .
Parent(c) == IF RFind(c, "/") = 1 THEN <<"/">> ELSE SubSeq(c, 1, RFind(c, "/") - 1)
Stem(c) == SubSeq(c, RFind(c, "/") + 1, RFind(c, ".") - 1)

OutputOmitted == In.output_dir.k = "absent"
\* The directory the claims expect the images in.
TargetDir ==
    IF In.output_dir.k = "str" /\ In.output_dir.p # <<>>
    THEN Canon(expanduser(In.output_dir.p))
    ELSE Parent(Source)
\* <TargetDir>/<base>_page_<n>.png
Target(n) ==
    Canon(TargetDir \o <<"/">> \o Stem(Source) \o <<"_page_", ToString(n), ".", "png">>)

Coercible(v) == v.k \in {"absent", "int", "numstr"}
NumbersCoercible ==
    Coercible(In.dpi) /\ Coercible(In.first_page) /\ Coercible(In.last_page)
FirstPage == IF In.first_page.k = "absent" THEN 1 ELSE In.first_page.n

FsUnchanged == dirs = prev.dirs /\ files = prev.files
WrittenNow == {c \in DOMAIN files : files[c].by = calls}
PathsOf(r) == {Canon(r.paths[i]) : i \in 1..Len(r.paths)}

\* C1: every invocation of pdf_to_png, whatever the tool-use request, returns a
\* result whose status is success or error; no exception leaves pdf_to_png.
C1_NoExceptionEscapes == Called => result.status \in {"success", "error"}

\* C2: for an existing PDF of N pages and a requested range first_page = a,
\* last_page = b with 1 <= a <= b <= N, pdf_to_png returns success with exactly
\* b-a+1 paths, in ascending page order, the i-th being
\* <output_dir>/<base>_page_<a+i>.png and showing page a+i.
C2_RangeConverted ==
    LET a == In.first_page.n
        b == In.last_page.n
    IN  ( /\ Called /\ SourceIsPdf
          /\ In.first_page.k = "int" /\ In.last_page.k = "int"
          /\ 1 <= a /\ a <= b /\ b <= prev.files[Source].pages
          /\ Coercible(In.dpi) /\ In.output_dir.k # "bad"
          /\ result.fault = "none" )
        => /\ result.status = "success"
           /\ Len(result.paths) = b - a + 1
           /\ \A i \in 0..(b - a) :
                 /\ Canon(result.paths[i + 1]) = Target(a + i)
                 /\ Target(a + i) \in DOMAIN files
                 /\ files[Target(a + i)] = ImageFile(calls, a + i, TRUE)

\* C3: a request whose source path, after user-home expansion, does not exist
\* returns the not-found error and leaves the file system as it was: no
\* directory is created and no file is written, whatever output_dir it names.
C3_NotFoundNoEffect ==
    (Called /\ SourceMissing)
        => /\ result.status = "error"
           /\ result.text = "notfound"
           /\ FsUnchanged

C3_Witness ==
    /\ Called /\ SourceMissing
    /\ In.output_dir = StrPath(<<"/", "out">>)
    /\ result.text = "notfound"
    /\ <<"/", "out">> \notin dirs

\* C4: a request on an existing PDF that omits output_dir succeeds, whatever
\* form the source path takes, and every image is written in the directory
\* that holds the source file.
C4_DefaultsToSourceDir ==
    ( /\ Called /\ SourceIsPdf /\ OutputOmitted /\ NumbersCoercible
      /\ result.fault = "none" )
        => /\ result.status = "success"
           /\ \A c \in PathsOf(result) : Parent(c) = Parent(Source)
           /\ WrittenNow = PathsOf(result)

\* C5: running pdf_to_png twice in a row with the same request on an unchanged
\* source is idempotent: the second run returns what the first returned, and
\* leaves the same set of files and directories, the files it names rewritten.
C5_Idempotent ==
    (calls >= 2 /\ WellFormed /\ result.fault = "none" /\ prev.result.fault = "none")
        => /\ result.status = prev.result.status
           /\ result.paths = prev.result.paths
           /\ DOMAIN files = DOMAIN prev.files
           /\ dirs = prev.dirs
           /\ \A c \in PathsOf(result) :
                 /\ files[c].by = calls
                 /\ prev.files[c].by = calls - 1

C5_Witness ==
    /\ calls >= 2 /\ WellFormed
    /\ result.status = "success" /\ prev.result.status = "success"
    /\ Len(result.paths) >= 2

\* C9: when an image.save fails after k pages were written, pdf_to_png returns
\* an error without a path list and removes nothing: the k files for pages
\* first_page .. first_page+k-1 are in the output directory.  A later
\* successful run of the same request rewrites those files in place.
C9_PartialOutputStays ==
    /\ (Called /\ WellFormed /\ result.fault = "save")
          => /\ result.status = "error"
             /\ result.paths = <<>>
             /\ DOMAIN prev.files \subseteq DOMAIN files
             /\ prev.dirs \subseteq dirs
             /\ {c \in WrittenNow : files[c].complete}
                   = {Target(FirstPage + i) : i \in 0..(result.at - 2)}
    /\ (calls >= 2 /\ WellFormed /\ prev.result.fault = "save"
           /\ result.status = "success")
          => /\ \A c \in DOMAIN prev.files :
                   prev.files[c].by = calls - 1
                      => files[c].by = calls /\ files[c].complete
             /\ DOMAIN files = DOMAIN prev.files \cup PathsOf(result)

C9_Witness ==
    /\ calls >= 2 /\ WellFormed
    /\ prev.result.fault = "save" /\ prev.result.at >= 2
    /\ result.status = "success"
    /\ \E c \in DOMAIN prev.files : prev.files[c].by = calls - 1

\* C10: pdf_to_png checks that pdf_path is present, then that the source exists,
\* then creates the output directory, and only then coerces dpi, first_page and
\* last_page.  With an existing source, an output_dir not yet there and a value
\* that does not coerce, it returns an error with the directory created and no
\* page written; the missing-argument and not-found errors change nothing.
C10_ValidationOrder ==
    /\ (Called /\ WellFormed /\ In.pdf_path.k = "absent")
          => result.status = "error" /\ result.text = "required" /\ FsUnchanged
    /\ (Called /\ SourceMissing)
          => result.status = "error" /\ result.text = "notfound" /\ FsUnchanged
    /\ ( /\ Called /\ SourceGiven /\ ~SourceMissing
         /\ In.output_dir.k = "str" /\ In.output_dir.p # <<>>
         /\ TargetDir \notin (prev.dirs \cup DOMAIN prev.files)
         /\ ~NumbersCoercible
         /\ result.fault = "none" )
          => /\ result.status = "error"
             /\ result.text = "exception"
             /\ TargetDir \in dirs
             /\ files = prev.files

C10_Witness ==
    /\ Called /\ SourceIsPdf /\ ~NumbersCoercible
    /\ result.status = "error" /\ result.fault = "none"
    /\ TargetDir \in dirs \ prev.dirs
    /\ files = prev.files

-----------------------------------------------------------------------------
(* agent.py: content blocks.  A file name is a sequence of characters. *)

\* (mutant) the extension is compared as written
lower_char_same(c) == c

\* str.lower(), character by character
lower_char(c) ==
    CASE c = "D" -> "d" [] c = "F" -> "f" [] c = "G" -> "g" [] c = "J" -> "j"
      [] c = "P" -> "p" [] OTHER -> c

lower(s) == [i \in 1..Len(s) |-> lower_char(s[i])]

\* str.endswith(suffix)
endswith(s, suffix) ==
    Len(s) >= Len(suffix) /\ SubSeq(s, Len(s) - Len(suffix) + 1, Len(s)) = suffix

JpgExt == <<".", "j", "p", "g">>
JpegExt == <<".", "j", "p", "e", "g">>
PngExt == <<".", "p", "n", "g">>
GifExt == <<".", "g", "i", "f">>
WebpExt == <<".", "w", "e", "b", "p">>

\* Line 71
supported(file_name) ==
    \E e \in {JpgExt, JpegExt, PngExt, GifExt, WebpExt} : endswith(lower(file_name), e)

\* Lines 75-82
image_format(file_name) ==
    IF endswith(lower(file_name), PngExt) THEN "png"
    ELSE IF endswith(lower(file_name), JpgExt) \/ endswith(lower(file_name), JpegExt)
    THEN "jpeg"
    ELSE IF endswith(lower(file_name), GifExt) THEN "gif"
    ELSE "webp"

\* ContentBlock(text=instruction_text), lines 61-67; with_context: the
\* additional context was appended to the instruction.
TextBlock(with_context) ==
    [kind |-> "text", format |-> "", bytes_of |-> <<>>, with_context |-> with_context]
\* ContentBlock(image={"format": ..., "source": {"bytes": ...}}), line 83
ImageBlock(file_name) ==
    [kind |-> "image", format |-> image_format(file_name), bytes_of |-> file_name,
     with_context |-> FALSE]

Warning(about) == [level |-> "WARNING", about |-> about]
Info(about) == [level |-> "INFO", about |-> about]
ErrorRecord(about) == [level |-> "ERROR", about |-> about]

\* The files the documents directory may hold.
APng == <<"a", ".", "p", "n", "g">>
BTxt == <<"b", ".", "t", "x", "t">>
CPdf == <<"c", ".", "P", "D", "F">>
DWebp == <<"d", ".", "w", "e", "b", "p">>
EJpg == <<"e", ".", "J", "P", "G">>
FJpeg == <<"f", ".", "j", "p", "e", "g">>
GGif == <<"g", ".", "G", "i", "f">>
NoDot == <<"p", "n", "g">>
PngBak == <<"h", ".", "p", "n", "g", ".", "b", "a", "k">>
Names == {APng, BTxt, CPdf, DWebp, EJpg, FJpeg, GGif, NoDot, PngBak}

\* os.listdir: distinct names, in any order
Listings ==
    {l \in UNION {[1..n -> Names] : n \in 0..MaxFiles} :
        \A i, j \in 1..Len(l) : i # j => l[i] # l[j]}

-----------------------------------------------------------------------------
(* agent.py: the graph, lines 42-49, and its execution, line 88 *)

Analyzer == "image_analyzer"
Reporter == "report_generator"

\* (mutant) an edge back from the report generator
Edges_with_back_edge == {<<Analyzer, Reporter>>, <<Reporter, Analyzer>>}

Nodes == {Analyzer, Reporter}                \* builder.add_node, lines 44-45
Edges == {<<Analyzer, Reporter>>}            \* builder.add_edge, line 46
EntryPoints == {Analyzer}                    \* builder.set_entry_point, line 47

Preds(n) == {m \in Nodes : <<m, n>> \in Edges}
Succs(n) == {m \in Nodes : <<n, m>> \in Edges}
Executions(n) == Cardinality({i \in 1..Len(started) : started[i] = n})

\* A node may start when it is pending and either is an entry point that has
\* not run, or has dependencies and all of them completed.
Ready(n) ==
    /\ status[n] = "pending"
    /\ \/ n \in EntryPoints /\ Executions(n) = 0
       \/ Preds(n) # {} /\ \A m \in Preds(n) : status[m] = "completed"

AgentInit ==
    /\ file_names \in Listings
    /\ context \in BOOLEAN
    /\ idx = 0
    /\ content_blocks = <<TextBlock(context)>>
    /\ log = <<>>
    /\ pc = "loop"
    /\ status = [n \in Nodes |-> "pending"]
    /\ started = <<>>
    /\ message = <<>>
    /\ PdfIdle
    /\ CredIdle

\* One iteration of the for loop, lines 69-85.
ProcessFile ==
    /\ pc = "loop"
    /\ idx < Len(file_names)
    /\ LET file_name == file_names[idx + 1]
       IN  IF supported(file_name)
           THEN /\ content_blocks' = Append(content_blocks, ImageBlock(file_name))
                /\ log' = log
           ELSE /\ log' = Append(log, Warning(file_name))
                /\ content_blocks' = content_blocks
    /\ idx' = idx + 1
    /\ UNCHANGED <<file_names, context, pc, status, started, message, pdfVars,
                   credVars>>

\* graph(content_blocks), line 88
InvokeGraph ==
    /\ pc = "loop"
    /\ idx = Len(file_names)
    /\ message' = content_blocks
    /\ pc' = "graph"
    /\ UNCHANGED <<file_names, context, idx, content_blocks, log, status, started,
                   pdfVars, credVars>>

StartNode(n) ==
    /\ pc = "graph"
    /\ Ready(n)
    /\ \A m \in Nodes : status[m] # "running"
    /\ status' = [status EXCEPT ![n] = "running"]
    /\ started' = Append(started, n)
    /\ UNCHANGED <<file_names, context, idx, content_blocks, log, pc, message,
                   pdfVars, credVars>>

\* The node's agent returned: its successors are armed, while they may still run.
CompleteNode(n) ==
    /\ pc = "graph"
    /\ status[n] = "running"
    /\ status' = [m \in Nodes |->
                    IF m = n THEN "completed"
                    ELSE IF m \in Succs(n) /\ Executions(m) < MaxExec THEN "pending"
                    ELSE status[m]]
    /\ UNCHANGED <<file_names, context, idx, content_blocks, log, pc, started,
                   message, pdfVars, credVars>>

\* The node's agent raised: the graph fails and the exception ends the script.
FailNode(n) ==
    /\ pc = "graph"
    /\ status[n] = "running"
    /\ status' = [status EXCEPT ![n] = "failed"]
    /\ pc' = "failed"
    /\ UNCHANGED <<file_names, context, idx, content_blocks, log, started, message,
                   pdfVars, credVars>>

\* No node is running or ready: graph(...) returns.
GraphReturns ==
    /\ pc = "graph"
    /\ \A n \in Nodes : status[n] # "running" /\ ~Ready(n)
    /\ pc' = "done"
    /\ UNCHANGED <<file_names, context, idx, content_blocks, log, status, started,
                   message, pdfVars, credVars>>

AgentNext ==
    \/ ProcessFile
    \/ InvokeGraph
    \/ \E n \in Nodes : StartNode(n)
    \/ \E n \in Nodes : CompleteNode(n)
    \/ \E n \in Nodes : FailNode(n)
    \/ GraphReturns

AgentSpec == AgentInit /\ [][AgentNext]_vars

Invoked == pc \in {"graph", "done", "failed"}

\* C6: the analyzer is the entry point and the two stages run one after the
\* other: the report generator starts only once the analyzer has completed,
\* each stage runs at most once, and nothing leads from the report generator
\* back to the analyzer.
C6_TwoStagesInSequence ==
    /\ started \in {<<>>, <<Analyzer>>, <<Analyzer, Reporter>>}
    /\ Reporter \in Range(started) => status[Analyzer] = "completed"
    /\ Cardinality({n \in Nodes : status[n] = "running"}) <= 1
    /\ Invoked \/ started = <<>>

C6_Witness ==
    /\ pc = "done"
    /\ started = <<Analyzer, Reporter>>
    /\ \A n \in Nodes : status[n] = "completed"

\* The names of the claim's image formats, as the listing spells them.
ImageNames == {APng, DWebp, EJpg, FJpeg, GGif}
Kept == SelectSeq(file_names, LAMBDA f : f \in ImageNames)
Skipped == SelectSeq(file_names, LAMBDA f : f \notin ImageNames)

\* C7: the message handed to the pipeline is the instruction text followed by
\* one image segment per file whose name ends, in any letter case, in .jpg,
\* .jpeg, .png, .gif or .webp, in listing order; every other file yields a
\* warning and no segment; the pipeline is invoked even when no file matches.
C7_MessageHoldsTheImages ==
    /\ Invoked =>
          /\ Len(message) = 1 + Len(Kept)
          /\ message[1].kind = "text"
          /\ \A i \in 1..Len(Kept) :
                message[i + 1].kind = "image" /\ message[i + 1].bytes_of = Kept[i]
          /\ log = [i \in 1..Len(Skipped) |-> Warning(Skipped[i])]
    /\ (pc = "loop" /\ idx = Len(file_names)) => ENABLED InvokeGraph

C7_Witness ==
    /\ Invoked
    /\ file_names = <<CPdf, EJpg>>
    /\ Len(message) = 2
    /\ log = <<Warning(CPdf)>>

C7_WitnessNoImage ==
    Invoked /\ file_names = <<BTxt>> /\ Len(message) = 1

-----------------------------------------------------------------------------
(* utils/credentials_loader.py *)

KeyOrder == <<"LANGFUSE_PUBLIC_KEY", "LANGFUSE_SECRET_KEY", "LANGFUSE_HOST">>
Keys == Range(KeyOrder)
None == "None"

\* The credentials file: there or not; parsed by configparser or rejected (no
\* section header, a duplicate option); the one section it holds; and what that
\* section gives each option: "absent", a "plain" value, or a value with a
\* "%" that the interpolation of a read rejects.  Option names are matched in
\* lower case whatever their spelling in the file; section names are not.
CredFiles ==
    {[there |-> FALSE, parses |-> FALSE, section |-> "none",
      options |-> [k \in Keys |-> "absent"]]} \cup
    {[there |-> TRUE, parses |-> FALSE, section |-> "none",
      options |-> [k \in Keys |-> "absent"]]} \cup
    [there : {TRUE}, parses : {TRUE}, section : {"langfuse", "Langfuse", "other"},
     options : [Keys -> {"absent", "plain", "percent"}]]

Unset == [k \in Keys |-> None]

\* The loop of lines 36-38 from the i-th key on: [raised, credentials].
RECURSIVE ReadKeys(_, _, _)
ReadKeys(i, f, acc) ==
    IF i > Len(KeyOrder) THEN [raised |-> FALSE, credentials |-> acc]
    ELSE LET key == KeyOrder[i]
         IN  IF f.options[key] = "absent" THEN ReadKeys(i + 1, f, acc)
             ELSE IF f.options[key] = "percent"
             THEN [raised |-> TRUE, credentials |-> acc]
             ELSE ReadKeys(i + 1, f, [acc EXCEPT ![key] = "value"])

\* load_credentials(credentials_file), lines 11-44: [credentials, log]
load_credentials(f) ==
    IF ~f.there THEN [credentials |-> Unset, log |-> <<Warning("not found")>>]
    ELSE IF ~f.parses THEN [credentials |-> Unset, log |-> <<ErrorRecord("loading")>>]
    ELSE IF f.section # "langfuse"
    THEN [credentials |-> Unset, log |-> <<Info("loaded")>>]
    ELSE LET read == ReadKeys(1, f, Unset)
         IN  [credentials |-> read.credentials,
              log |-> IF read.raised THEN <<ErrorRecord("loading")>>
                      ELSE <<Info("loaded")>>]

CredInit ==
    /\ cfile \in CredFiles
    /\ credentials = <<>>
    /\ log = <<>>
    /\ PdfIdle
    /\ AgentIdle

Load ==
    /\ DOMAIN credentials = {}
    /\ \E out \in {load_credentials(cfile)} :
           /\ credentials' = out.credentials
           /\ log' = out.log
    /\ UNCHANGED <<cfile, pdfVars, agentVars>>

CredNext == Load

CredSpec == CredInit /\ [][CredNext]_vars

Loaded == DOMAIN credentials # {}
\* Whether the file gives the key a value.
Gives(k) == cfile.there /\ cfile.parses /\ cfile.section = "langfuse"
               /\ cfile.options[k] # "absent"
\* The degraded cases: no file, no langfuse section, a section lacking a key.
Degraded ==
    \/ ~cfile.there
    \/ /\ cfile.there /\ cfile.parses
       /\ \/ cfile.section # "langfuse"
          \/ \E k \in Keys : cfile.options[k] = "absent"

\* C8: load_credentials never fails: for a missing file, a file without the
\* langfuse section, or a section lacking a key, it returns a dictionary with
\* exactly the three keys in which every key absent from the file is None,
\* and it logs a warning in each of these cases.
C8_DegradesWithWarning ==
    (Loaded /\ Degraded)
        => /\ DOMAIN credentials = Keys
           /\ \A k \in Keys : ~Gives(k) => credentials[k] = None
           /\ \E i \in 1..Len(log) : log[i].level = "WARNING"

\* C8 without the warning: what load_credentials returns in the degraded cases.
C8_ReturnsUnsetValues ==
    Loaded
        => /\ DOMAIN credentials = Keys
           /\ \A k \in Keys : ~Gives(k) => credentials[k] = None
           /\ (\E i \in 1..Len(log) : log[i].level = "WARNING") <=> ~cfile.there

====
